---- MODULE Spec2Model ----
(***************************************************************************)
(* Model of src/project1.py: the Streamlit financial-analysis script.      *)
(* One script run renders one page.  The Financial Analysis and the        *)
(* Financial Report page load four sheets of the uploaded workbook,        *)
(* extract line items by exact label, derive the ratios, the Altman        *)
(* Z-Score and the Piotroski F-Score, and classify the two scores.         *)
(*                                                                         *)
(* Numbers are exact rationals n/d (floating-point rounding is not         *)
(* modelled), extended with nan, +inf and -inf.  Every value carries the   *)
(* flag py: TRUE for a Python scalar (a cell of an object-dtype column, a  *)
(* literal, float('nan')), FALSE for a numpy scalar (a cell of a numeric   *)
(* column, the result of pd.to_numeric on a string).  Dividing a Python    *)
(* scalar by a Python zero raises ZeroDivisionError; as soon as one        *)
(* operand is a numpy scalar the division yields inf or nan instead.       *)
(*                                                                         *)
(* Labels and sheet names are written in ASCII: sheet "SBD" is the balance *)
(* sheet, "ODT" the income statement, "OOT" the retained-earnings          *)
(* statement, "MGT" the cash-flow statement; a label is named after the    *)
(* variable the source extracts it into.                                   *)
(***************************************************************************)
EXTENDS Integers, Sequences, FiniteSets, TLC

VARIABLES page, uploaded_file, out, arg, ret, session_state, widgets

vars == <<page, uploaded_file, out, arg, ret, session_state, widgets>>

----------------------------------------------------------------------------
(* Floating-point values                                                   *)

RECURSIVE GCD(_, _)
GCD(a, b) == IF b = 0 THEN a ELSE GCD(b, a % b)

Abs(a) == IF a < 0 THEN -a ELSE a

\* The rational n/d in lowest terms with a positive denominator (d # 0).
Num(n, d, py) ==
    LET g == GCD(Abs(n), Abs(d))
        s == IF d < 0 THEN -1 ELSE 1
    IN  [k |-> "num", n |-> (s * n) \div g, d |-> (s * d) \div g, py |-> py]

NaN(py) == [k |-> "nan", n |-> 0, d |-> 1, py |-> py]

Inf(s, py) == [k |-> IF s > 0 THEN "pinf" ELSE "ninf", n |-> 0, d |-> 1, py |-> py]

\* A name that was never assigned.
Unset == [k |-> "unset", n |-> 0, d |-> 1, py |-> FALSE]

\* A Python literal such as 365, 100 or 6.56.
Lit(n, d) == Num(n, d, TRUE)

IsNum(v) == v.k = "num"
IsNaN(v) == v.k = "nan"
IsInf(v) == v.k \in {"pinf", "ninf"}
IsZero(v) == v.k = "num" /\ v.n = 0

Sgn(v) ==
    CASE v.k = "pinf" -> 1
      [] v.k = "ninf" -> -1
      [] OTHER -> IF v.n > 0 THEN 1 ELSE IF v.n < 0 THEN -1 ELSE 0

Add(a, b) ==
    LET py == a.py /\ b.py IN
    IF IsNaN(a) \/ IsNaN(b) THEN NaN(py)
    ELSE IF IsInf(a) /\ IsInf(b) THEN (IF a.k = b.k THEN Inf(Sgn(a), py) ELSE NaN(py))
    ELSE IF IsInf(a) THEN Inf(Sgn(a), py)
    ELSE IF IsInf(b) THEN Inf(Sgn(b), py)
    ELSE Num(a.n * b.d + b.n * a.d, a.d * b.d, py)

Neg(a) ==
    IF IsNaN(a) THEN a
    ELSE IF IsInf(a) THEN Inf(-Sgn(a), a.py)
    ELSE Num(-a.n, a.d, a.py)

Sub(a, b) == Add(a, Neg(b))

Mul(a, b) ==
    LET py == a.py /\ b.py IN
    IF IsNaN(a) \/ IsNaN(b) THEN NaN(py)
    ELSE IF IsInf(a) \/ IsInf(b)
         THEN (IF Sgn(a) * Sgn(b) = 0 THEN NaN(py) ELSE Inf(Sgn(a) * Sgn(b), py))
    ELSE Num(a.n * b.n, a.d * b.d, py)

\* a / b raises exactly when both are Python scalars and b is zero.
ZeroDivisionError(a, b) == a.py /\ b.py /\ IsZero(b)

\* a / b when it does not raise: numpy's x/0 is +-inf, and nan for 0/0.
Div(a, b) ==
    LET py == a.py /\ b.py IN
    IF IsNaN(a) \/ IsNaN(b) THEN NaN(py)
    ELSE IF IsZero(b) THEN (IF Sgn(a) = 0 THEN NaN(py) ELSE Inf(Sgn(a), py))
    ELSE IF IsInf(a) /\ IsInf(b) THEN NaN(py)
    ELSE IF IsInf(a) THEN Inf(Sgn(a) * Sgn(b), py)
    ELSE IF IsInf(b) THEN Num(0, 1, py)
    ELSE Num(a.n * b.d, a.d * b.n, py)

\* Comparisons: every comparison with nan is False, a != b is True.
Gt(a, b) ==
    IF IsNaN(a) \/ IsNaN(b) THEN FALSE
    ELSE IF a.k = "pinf" THEN b.k # "pinf"
    ELSE IF a.k = "ninf" THEN FALSE
    ELSE IF b.k = "pinf" THEN FALSE
    ELSE IF b.k = "ninf" THEN TRUE
    ELSE a.n * b.d > b.n * a.d

Lt(a, b) == Gt(b, a)

Ge(a, b) ==
    IF IsNaN(a) \/ IsNaN(b) THEN FALSE
    ELSE IF IsInf(a) \/ IsInf(b) THEN (a.k = b.k \/ Gt(a, b))
    ELSE a.n * b.d >= b.n * a.d

Le(a, b) == Ge(b, a)

Ne0(a) == ~IsZero(a)

\* The guarded quotient "n / d if d != 0 else float('nan')".
Guarded(n, d) == IF Ne0(d) THEN Div(n, d) ELSE NaN(TRUE)

\* Two values are the same number (the scalar type set aside).
SameVal(a, b) == a.k = b.k /\ a.n = b.n /\ a.d = b.d

----------------------------------------------------------------------------
(* Workbooks                                                               *)

Periods == {"beginning", "end"}

SheetNames == {"SBD", "ODT", "OOT", "MGT"}

\* A cell holds a number, nothing, a non-numeric text or a numeric text.
NumCell(v) == [t |-> "num", v |-> v]
EmptyCell == [t |-> "empty", v |-> 0]
TextCell == [t |-> "text", v |-> 0]
NumStrCell(v) == [t |-> "numstr", v |-> v]

Row(label, b, e) == [label |-> label, beginning |-> b, end |-> e]

\* The line items of the balance sheet and of the income statement, in the
\* order in which the pages extract them.
BalanceItems == <<"cash", "ar", "ap", "ca", "cl", "re", "inv", "total_assets",
                  "total_equity", "sts", "fa", "stl", "ltl", "shares">>
IncomeItems == <<"revenue", "cogs", "gross_profit", "net_income", "ebit",
                 "interest_expense">>

\* Largest number an edited cell receives.
MaxVal == 2

\* Two workbooks with every sheet, label and number present.  "scenario"
\* carries the end-of-period figures of the documented example (current
\* assets 100, current liabilities 50, total assets 1000, retained earnings
\* 200, EBIT 80, equity 400, loans 100 + 500); "small" is a workbook of small
\* figures in which an edited cell can equal another one.
BaseNames == {"scenario", "small"}

BaseValue(b, item) ==
    IF b = "scenario" THEN
        CASE item = "cash" -> <<15, 20>>
          [] item = "ar" -> <<25, 30>>
          [] item = "ap" -> <<15, 20>>
          [] item = "ca" -> <<90, 100>>
          [] item = "cl" -> <<60, 50>>
          [] item = "re" -> <<150, 200>>
          [] item = "inv" -> <<20, 25>>
          [] item = "total_assets" -> <<800, 1000>>
          [] item = "total_equity" -> <<300, 400>>
          [] item = "sts" -> <<5, 10>>
          [] item = "fa" -> <<710, 900>>
          [] item = "stl" -> <<20, 100>>
          [] item = "ltl" -> <<480, 500>>
          [] item = "shares" -> <<100, 100>>
          [] item = "revenue" -> <<360, 500>>
          [] item = "cogs" -> <<240, 300>>
          [] item = "gross_profit" -> <<120, 200>>
          [] item = "net_income" -> <<40, 60>>
          [] item = "ebit" -> <<55, 80>>
          [] item = "interest_expense" -> <<8, 10>>
          [] item = "cash_flow" -> <<70, 90>>
          [] OTHER -> <<1, 1>>
    ELSE
        CASE item = "cash" -> <<1, 1>>
          [] item = "ar" -> <<2, 1>>
          [] item = "ap" -> <<1, 2>>
          [] item = "ca" -> <<4, 3>>
          [] item = "cl" -> <<2, 1>>
          [] item = "re" -> <<1, -1>>
          [] item = "inv" -> <<1, 2>>
          [] item = "total_assets" -> <<8, 6>>
          [] item = "total_equity" -> <<3, 2>>
          [] item = "sts" -> <<1, 0>>
          [] item = "fa" -> <<4, 3>>
          [] item = "stl" -> <<2, 0>>
          [] item = "ltl" -> <<3, 3>>
          [] item = "shares" -> <<5, 6>>
          [] item = "revenue" -> <<6, 4>>
          [] item = "cogs" -> <<4, 3>>
          [] item = "gross_profit" -> <<2, 1>>
          [] item = "net_income" -> <<1, -1>>
          [] item = "ebit" -> <<2, 0>>
          [] item = "interest_expense" -> <<1, 1>>
          [] item = "cash_flow" -> <<1, -2>>
          [] OTHER -> <<1, 1>>

BaseRow(b, item) ==
    Row(item, NumCell(BaseValue(b, item)[1]), NumCell(BaseValue(b, item)[2]))

\* Each sheet ends with a row the pages do not look up.
BaseTable(b, sheet) ==
    LET items == CASE sheet = "SBD" -> BalanceItems
                   [] sheet = "ODT" -> IncomeItems
                   [] sheet = "MGT" -> <<"cash_flow">>
                   [] OTHER -> <<>>
    IN  [i \in 1..Len(items) |-> BaseRow(b, items[i])] \o <<BaseRow(b, "other")>>

\* A workbook: the sheets it holds and the rows of each.
BaseFile(b) ==
    [sheets |-> SheetNames, tab |-> [s \in SheetNames |-> BaseTable(b, s)]]

\* The labels a sheet of a base workbook holds.
SheetItems(s) ==
    CASE s = "SBD" -> {BalanceItems[i] : i \in 1..Len(BalanceItems)}
      [] s = "ODT" -> {IncomeItems[i] : i \in 1..Len(IncomeItems)}
      [] s = "MGT" -> {"cash_flow"}
      [] OTHER -> {}

EditCells ==
    {EmptyCell, TextCell, NumStrCell(MaxVal)} \cup {NumCell(v) : v \in 0..MaxVal}

NoEdit == [op |-> "none", sheet |-> "SBD", label |-> "other", col |-> "end", cell |-> EmptyCell]

\* One change made to a base workbook: a cell overwritten ("set"), a row
\* removed ("del"), a value column emptied ("blank"), a sheet removed ("drop").
Edits ==
    {NoEdit}
    \cup {[op |-> "set", sheet |-> s, label |-> l, col |-> c, cell |-> x] :
            s \in {"SBD"}, l \in SheetItems("SBD"), c \in Periods, x \in EditCells}
    \cup {[op |-> "set", sheet |-> s, label |-> l, col |-> c, cell |-> x] :
            s \in {"ODT"}, l \in SheetItems("ODT"), c \in Periods, x \in EditCells}
    \cup {[op |-> "set", sheet |-> s, label |-> l, col |-> c, cell |-> x] :
            s \in {"MGT"}, l \in SheetItems("MGT"), c \in {"end"}, x \in EditCells}
    \cup {[op |-> "del", sheet |-> s, label |-> l, col |-> "end", cell |-> EmptyCell] :
            s \in {"SBD"}, l \in SheetItems("SBD")}
    \cup {[op |-> "del", sheet |-> s, label |-> l, col |-> "end", cell |-> EmptyCell] :
            s \in {"ODT"}, l \in SheetItems("ODT")}
    \cup {[op |-> "del", sheet |-> s, label |-> l, col |-> "end", cell |-> EmptyCell] :
            s \in {"MGT"}, l \in SheetItems("MGT")}
    \cup {[op |-> "blank", sheet |-> s, label |-> "other", col |-> c, cell |-> EmptyCell] :
            s \in {"SBD", "ODT", "MGT"}, c \in Periods}
    \cup {[op |-> "drop", sheet |-> s, label |-> "other", col |-> "end", cell |-> EmptyCell] :
            s \in SheetNames}

\* The sheets whose last row holds text (a dash, a note) in both value
\* columns, which makes pandas read those columns with dtype object.
NoteVariants == {{}, {"SBD", "ODT", "MGT"}}

SetCell(table, label, col, cell) ==
    [i \in DOMAIN table |->
        IF table[i].label = label THEN [table[i] EXCEPT ![col] = cell] ELSE table[i]]

KeepRow(label, r) == r.label # label

DeleteRow(table, label) == SelectSeq(table, LAMBDA r : KeepRow(label, r))

BlankColumn(table, col) == [i \in DOMAIN table |-> [table[i] EXCEPT ![col] = EmptyCell]]

WithNotes(table) ==
    [i \in DOMAIN table |->
        IF table[i].label = "other" THEN Row("other", TextCell, TextCell) ELSE table[i]]

EditTable(table, e) ==
    CASE e.op = "set" -> SetCell(table, e.label, e.col, e.cell)
      [] e.op = "del" -> DeleteRow(table, e.label)
      [] e.op = "blank" -> BlankColumn(table, e.col)
      [] OTHER -> table

RECURSIVE EditSheet(_, _, _)
EditSheet(table, sheet, es) ==
    IF es = <<>> THEN table
    ELSE EditSheet(IF Head(es).op # "none" /\ Head(es).sheet = sheet
                   THEN EditTable(table, Head(es)) ELSE table,
                   sheet, Tail(es))

\* The base workbook b, with notes in the sheets of notes, after the edits es.
MakeFile(b, notes, es) ==
    [sheets |-> SheetNames \ {es[i].sheet : i \in {j \in DOMAIN es : es[j].op = "drop"}},
     tab |-> [s \in SheetNames |->
                EditSheet(IF s \in notes THEN WithNotes(BaseTable(b, s)) ELSE BaseTable(b, s),
                          s, es)]]

\* Pairs of edits: a removed row together with a total of zero assets.
EditPairs ==
    {<<d, z>> : d \in {e \in Edits : e.op = "del" /\ e.label \in {"cash", "shares"}},
                z \in {e \in Edits : e.op = "set" /\ e.label = "total_assets"
                                     /\ e.cell = NumCell(0)}}

\* The workbooks of the computation specification.
Files ==
    {MakeFile(b, n, <<e>>) : b \in BaseNames, n \in NoteVariants, e \in Edits}
    \cup {MakeFile(b, n, es) : b \in BaseNames, n \in NoteVariants, es \in EditPairs}

\* The workbooks a user uploads in the session specification: the base
\* workbooks and those lacking a row, a column or a sheet.
Uploads ==
    {MakeFile(b, {}, <<e>>) : b \in BaseNames, e \in {x \in Edits : x.op # "set"}}

NoFile == [sheets |-> {}, tab |-> [s \in SheetNames |-> <<>>]]

----------------------------------------------------------------------------
(* pandas: loading the sheets and looking a line item up                   *)

\* pd.read_excel followed by dropna(axis=1, how='all'): a value column
\* without any filled cell is dropped; a column holding a text has dtype
\* object and yields Python scalars.
DataFrame(table) ==
    [rows |-> table,
     columns |-> {c \in Periods : \E i \in DOMAIN table : table[i][c].t # "empty"},
     object |-> {c \in Periods : \E i \in DOMAIN table : table[i][c].t \in {"text", "numstr"}}]

NoFrame == [rows |-> <<>>, columns |-> {}, object |-> {}]

Matches(df, label) == {i \in DOMAIN df.rows : df.rows[i].label = label}

Min(S) == CHOOSE m \in S : \A n \in S : m <= n

\* A variant in which a label without a row raises nothing.
LookupError_mut(df, label, col) ==
    IF col \notin df.columns THEN "KeyError"
    ELSE "none"

\* df.loc[df[label column] == label, col].values[0] raises KeyError when the
\* column is gone and IndexError when no row carries the label.
LookupError(df, label, col) ==
    IF col \notin df.columns THEN "KeyError"
    ELSE IF Matches(df, label) = {} THEN "IndexError"
    ELSE "none"

\* A variant that takes the last matching row.
to_numeric_mut(df, label, col) ==
    IF col \notin df.columns \/ Matches(df, label) = {} THEN Unset
    ELSE LET last == CHOOSE m \in Matches(df, label) : \A n \in Matches(df, label) : m >= n
             cell == df.rows[last][col]
             py == col \in df.object
         IN  CASE cell.t = "num" -> Num(cell.v, 1, py)
               [] cell.t = "empty" -> NaN(py)
               [] cell.t = "text" -> NaN(FALSE)
               [] OTHER -> Num(cell.v, 1, FALSE)

\* pd.to_numeric(..., errors='coerce') of the first matching row's cell
\* (nothing is assigned when the lookup raises).
to_numeric(df, label, col) ==
    IF col \notin df.columns \/ Matches(df, label) = {} THEN Unset
    ELSE LET cell == df.rows[Min(Matches(df, label))][col]
             py == col \in df.object
         IN  CASE cell.t = "num" -> Num(cell.v, 1, py)
               [] cell.t = "empty" -> NaN(py)
               [] cell.t = "text" -> NaN(FALSE)
               [] OTHER -> Num(cell.v, 1, FALSE)

----------------------------------------------------------------------------
(* Extraction of the line items (the same statements on both pages)        *)

TwoPeriods(item, sheet) ==
    <<[kind |-> "get", var |-> item, sheet |-> sheet, col |-> "beginning"],
      [kind |-> "get", var |-> item, sheet |-> sheet, col |-> "end"]>>

\* The statements of the extraction block in source order: the lookups, and
\* the two unguarded quotients leverage and prev_leverage.
Steps ==
    TwoPeriods("cash", "SBD") \o TwoPeriods("ar", "SBD") \o TwoPeriods("ap", "SBD")
    \o TwoPeriods("ca", "SBD") \o TwoPeriods("cl", "SBD") \o TwoPeriods("re", "SBD")
    \o TwoPeriods("inv", "SBD") \o TwoPeriods("revenue", "ODT")
    \o TwoPeriods("cogs", "ODT") \o TwoPeriods("total_assets", "SBD")
    \o TwoPeriods("total_equity", "SBD") \o TwoPeriods("sts", "SBD")
    \o TwoPeriods("gross_profit", "ODT") \o TwoPeriods("net_income", "ODT")
    \o TwoPeriods("fa", "SBD") \o TwoPeriods("ebit", "ODT")
    \o TwoPeriods("stl", "SBD") \o TwoPeriods("ltl", "SBD")
    \o TwoPeriods("interest_expense", "ODT")
    \o <<[kind |-> "get", var |-> "cash_flow", sheet |-> "MGT", col |-> "end"],
         [kind |-> "div", var |-> "leverage", sheet |-> "SBD", col |-> "end"],
         [kind |-> "div", var |-> "prev_leverage", sheet |-> "SBD", col |-> "beginning"],
         [kind |-> "get", var |-> "shares", sheet |-> "SBD", col |-> "end"],
         [kind |-> "get", var |-> "shares", sheet |-> "SBD", col |-> "beginning"]>>

\* The exception one statement raises ("none" when it completes).
StepError(fr, st) ==
    IF st.kind = "get" THEN LookupError(fr[st.sheet], st.var, st.col)
    ELSE IF ZeroDivisionError(to_numeric(fr.SBD, "ltl", st.col),
                              to_numeric(fr.SBD, "total_assets", st.col))
         THEN "ZeroDivisionError"
         ELSE "none"

\* The exception that ends the extraction block: that of its first failing
\* statement.
ExtractionError(fr) ==
    LET bad == {i \in DOMAIN Steps : StepError(fr, Steps[i]) # "none"}
    IN  IF bad = {} THEN "none" ELSE StepError(fr, Steps[Min(bad)])

\* The line items of one period; total_liabilities = stl + ltl.
Items(fr, c) ==
    [cash |-> to_numeric(fr.SBD, "cash", c),
     ar |-> to_numeric(fr.SBD, "ar", c),
     ap |-> to_numeric(fr.SBD, "ap", c),
     ca |-> to_numeric(fr.SBD, "ca", c),
     cl |-> to_numeric(fr.SBD, "cl", c),
     re |-> to_numeric(fr.SBD, "re", c),
     inv |-> to_numeric(fr.SBD, "inv", c),
     revenue |-> to_numeric(fr.ODT, "revenue", c),
     cogs |-> to_numeric(fr.ODT, "cogs", c),
     total_assets |-> to_numeric(fr.SBD, "total_assets", c),
     total_equity |-> to_numeric(fr.SBD, "total_equity", c),
     sts |-> to_numeric(fr.SBD, "sts", c),
     gross_profit |-> to_numeric(fr.ODT, "gross_profit", c),
     net_income |-> to_numeric(fr.ODT, "net_income", c),
     fa |-> to_numeric(fr.SBD, "fa", c),
     ebit |-> to_numeric(fr.ODT, "ebit", c),
     stl |-> to_numeric(fr.SBD, "stl", c),
     ltl |-> to_numeric(fr.SBD, "ltl", c),
     total_liabilities |-> Add(to_numeric(fr.SBD, "stl", c), to_numeric(fr.SBD, "ltl", c)),
     interest_expense |-> to_numeric(fr.ODT, "interest_expense", c)]

\* Everything the extraction block assigns when it completes.
Extract(fr) ==
    [beginning |-> Items(fr, "beginning"),
     end |-> Items(fr, "end"),
     cash_flow |-> to_numeric(fr.MGT, "cash_flow", "end"),
     leverage |-> Div(to_numeric(fr.SBD, "ltl", "end"),
                      to_numeric(fr.SBD, "total_assets", "end")),
     prev_leverage |-> Div(to_numeric(fr.SBD, "ltl", "beginning"),
                           to_numeric(fr.SBD, "total_assets", "beginning")),
     shares_outstanding |-> to_numeric(fr.SBD, "shares", "end"),
     prev_shares_outstanding |-> to_numeric(fr.SBD, "shares", "beginning")]

----------------------------------------------------------------------------
(* The ratios of one period p of the extracted items x                      *)

\* A variant whose days ratios divide 365 by the turnover without a guard.
activity_ratios_mut(x, p) ==
    LET v == x[p]
        inventory_turnover == Guarded(v.cogs, v.inv)
        receivables_turnover == Guarded(v.revenue, v.ar)
        payable_turnover == Guarded(v.cogs, v.ap)
    IN  [inventory_turnover |-> inventory_turnover,
         days_of_inventory |-> Div(Lit(365, 1), inventory_turnover),
         receivables_turnover |-> receivables_turnover,
         days_of_sales |-> Div(Lit(365, 1), receivables_turnover),
         payable_turnover |-> payable_turnover,
         days_payables |-> Div(Lit(365, 1), payable_turnover),
         wc_turnover |-> Div(v.revenue, Sub(v.ca, v.cl)),
         fixed_asset_turnover |-> Guarded(v.revenue, v.fa),
         total_asset_turnover |-> Guarded(v.revenue, v.total_assets)]

activity_ratios(x, p) ==
    LET v == x[p]
        inventory_turnover == Guarded(v.cogs, v.inv)
        receivables_turnover == Guarded(v.revenue, v.ar)
        payable_turnover == Guarded(v.cogs, v.ap)
    IN  [inventory_turnover |-> inventory_turnover,
         days_of_inventory |-> Guarded(Lit(365, 1), inventory_turnover),
         receivables_turnover |-> receivables_turnover,
         days_of_sales |-> Guarded(Lit(365, 1), receivables_turnover),
         payable_turnover |-> payable_turnover,
         days_payables |-> Guarded(Lit(365, 1), payable_turnover),
         wc_turnover |-> Div(v.revenue, Sub(v.ca, v.cl)),
         fixed_asset_turnover |-> Guarded(v.revenue, v.fa),
         total_asset_turnover |-> Guarded(v.revenue, v.total_assets)]

\* wc_turnover is the one quotient of the block without a guard.
activity_error(x) ==
    IF \E p \in Periods : ZeroDivisionError(x[p].revenue, Sub(x[p].ca, x[p].cl))
    THEN "ZeroDivisionError" ELSE "none"

\* A variant whose quick ratio reads the end receivables in both periods.
liquidity_ratios_mut(x, p) ==
    LET v == x[p]
    IN  [current_ratio |-> Guarded(v.ca, v.cl),
         quick_ratio |-> Guarded(Add(Add(v.cash, v.sts), x["end"].ar), v.cl),
         cash_ratio |-> Guarded(Add(v.cash, v.sts), v.cl)]

liquidity_ratios(x, p) ==
    LET v == x[p]
    IN  [current_ratio |-> Guarded(v.ca, v.cl),
         quick_ratio |-> Guarded(Add(Add(v.cash, v.sts), v.ar), v.cl),
         cash_ratio |-> Guarded(Add(v.cash, v.sts), v.cl)]

solvency_ratios(x, p) ==
    LET v == x[p]
    IN  [debt_to_equity |-> Guarded(v.total_liabilities, v.total_equity),
         debt_ratio |-> Guarded(v.total_liabilities, v.total_assets),
         equity_ratio |-> Guarded(v.total_equity, v.total_assets),
         interest_coverage_ratio |-> Guarded(v.net_income, v.interest_expense)]

\* "(n / d) * 100 if d != 0 else float('nan')"
Percent(n, d) == IF Ne0(d) THEN Mul(Div(n, d), Lit(100, 1)) ELSE NaN(TRUE)

profitability_ratios(x, p) ==
    LET v == x[p]
    IN  [gross_profit_margin |-> Percent(v.gross_profit, v.revenue),
         net_profit_margin |-> Percent(v.net_income, v.revenue),
         roa |-> Percent(v.net_income, v.total_assets),
         roe |-> Percent(v.net_income, v.total_equity)]

----------------------------------------------------------------------------
(* The composite scores                                                    *)

Zero == Lit(0, 1)

\* The dictionary the analysis page hands to calculate_piotroski_f_score.
piotroski_data(x) ==
    [net_income_end |-> x.end.net_income,
     roa_end |-> profitability_ratios(x, "end").roa,
     roa_beginning |-> profitability_ratios(x, "beginning").roa,
     cash_flow |-> x.cash_flow,
     leverage |-> x.leverage,
     prev_leverage |-> x.prev_leverage,
     current_ratio_end |-> liquidity_ratios(x, "end").current_ratio,
     current_ratio_beginning |-> liquidity_ratios(x, "beginning").current_ratio,
     shares_outstanding |-> x.shares_outstanding,
     prev_shares_outstanding |-> x.prev_shares_outstanding,
     gross_profit_margin_end |-> profitability_ratios(x, "end").gross_profit_margin,
     gross_profit_margin_beginning |-> profitability_ratios(x, "beginning").gross_profit_margin,
     total_asset_turnover_end |-> activity_ratios(x, "end").total_asset_turnover,
     total_asset_turnover_beginning |-> activity_ratios(x, "beginning").total_asset_turnover]

\* "if cond: f_score += 1"
Inc(cond) == IF cond THEN 1 ELSE 0

\* A variant that counts the share signal only when the shares fell.
calculate_piotroski_f_score_mut(d) ==
    0 + Inc(Gt(d.net_income_end, Zero))
      + Inc(Gt(d.roa_end, d.roa_beginning))
      + Inc(Gt(d.cash_flow, Zero))
      + Inc(Gt(d.cash_flow, d.net_income_end))
      + Inc(Lt(d.leverage, d.prev_leverage))
      + Inc(Gt(d.current_ratio_end, d.current_ratio_beginning))
      + Inc(Lt(d.shares_outstanding, d.prev_shares_outstanding))
      + Inc(Gt(d.gross_profit_margin_end, d.gross_profit_margin_beginning))
      + Inc(Gt(d.total_asset_turnover_end, d.total_asset_turnover_beginning))

calculate_piotroski_f_score(d) ==
    0 + Inc(Gt(d.net_income_end, Zero))
      + Inc(Gt(d.roa_end, d.roa_beginning))
      + Inc(Gt(d.cash_flow, Zero))
      + Inc(Gt(d.cash_flow, d.net_income_end))
      + Inc(Lt(d.leverage, d.prev_leverage))
      + Inc(Gt(d.current_ratio_end, d.current_ratio_beginning))
      + Inc(Le(d.shares_outstanding, d.prev_shares_outstanding))
      + Inc(Gt(d.gross_profit_margin_end, d.gross_profit_margin_beginning))
      + Inc(Gt(d.total_asset_turnover_end, d.total_asset_turnover_beginning))

\* The report page's dictionary of booleans, over the same quantities.
f_score_components(d) ==
    [Net_Income_Positive |-> Gt(d.net_income_end, Zero),
     ROA_Positive |-> Gt(d.roa_end, Zero),
     Improved_ROA |-> Gt(d.roa_end, d.roa_beginning),
     Operating_Cash_Flow_Positive |-> Gt(d.cash_flow, Zero),
     Cash_Flow_gt_Net_Income |-> Gt(d.cash_flow, d.net_income_end),
     Lower_Leverage |-> Lt(d.leverage, d.prev_leverage),
     Improved_Current_Ratio |-> Gt(d.current_ratio_end, d.current_ratio_beginning),
     No_Dilution_of_Shares |-> Le(d.shares_outstanding, d.prev_shares_outstanding),
     Improved_Gross_Margin |-> Gt(d.gross_profit_margin_end, d.gross_profit_margin_beginning),
     Improved_Asset_Turnover |-> Gt(d.total_asset_turnover_end, d.total_asset_turnover_beginning)]

\* sum(f_score_components.values())
report_piotroski_f_score(d) ==
    LET c == f_score_components(d)
    IN  Cardinality({name \in DOMAIN c : c[name]})

\* A variant weighting working capital by 1.2, the coefficient of the
\* original five-factor Altman model.
analysis_z_score_mut(x) ==
    LET working_capital == Sub(x.end.ca, x.end.cl)
        A == Div(working_capital, x.end.total_assets)
        B == Div(x.end.re, x.end.total_assets)
        C == Div(x.end.ebit, x.end.total_assets)
        D == Div(x.end.total_equity, x.end.total_liabilities)
    IN  Add(Add(Add(Mul(Lit(120, 100), A), Mul(Lit(326, 100), B)),
                Mul(Lit(672, 100), C)),
            Mul(Lit(105, 100), D))

\* The analysis page's Z-Score: none of the four quotients is guarded.
analysis_z_score(x) ==
    LET working_capital == Sub(x.end.ca, x.end.cl)
        A == Div(working_capital, x.end.total_assets)
        B == Div(x.end.re, x.end.total_assets)
        C == Div(x.end.ebit, x.end.total_assets)
        D == Div(x.end.total_equity, x.end.total_liabilities)
    IN  Add(Add(Add(Mul(Lit(656, 100), A), Mul(Lit(326, 100), B)),
                Mul(Lit(672, 100), C)),
            Mul(Lit(105, 100), D))

analysis_z_error(x) ==
    IF \/ ZeroDivisionError(Sub(x.end.ca, x.end.cl), x.end.total_assets)
       \/ ZeroDivisionError(x.end.re, x.end.total_assets)
       \/ ZeroDivisionError(x.end.ebit, x.end.total_assets)
       \/ ZeroDivisionError(x.end.total_equity, x.end.total_liabilities)
    THEN "ZeroDivisionError" ELSE "none"

\* A variant that sums the terms that are numbers and skips a nan term.
report_z_score_mut(x) ==
    LET working_capital == Sub(x.end.ca, x.end.cl)
        A == Guarded(working_capital, x.end.total_assets)
        B == Guarded(x.end.re, x.end.total_assets)
        C == Guarded(x.end.ebit, x.end.total_assets)
        D == Guarded(x.end.total_equity, x.end.total_liabilities)
        Term(w, v) == IF IsNaN(v) THEN Zero ELSE Mul(Lit(w, 100), v)
    IN  Add(Add(Add(Term(656, A), Term(326, B)), Term(672, C)), Term(105, D))

\* The report page's Z-Score: every quotient is guarded.
report_z_score(x) ==
    LET working_capital == Sub(x.end.ca, x.end.cl)
        A == Guarded(working_capital, x.end.total_assets)
        B == Guarded(x.end.re, x.end.total_assets)
        C == Guarded(x.end.ebit, x.end.total_assets)
        D == Guarded(x.end.total_equity, x.end.total_liabilities)
    IN  Add(Add(Add(Mul(Lit(656, 100), A), Mul(Lit(326, 100), B)),
                Mul(Lit(672, 100), C)),
            Mul(Lit(105, 100), D))

----------------------------------------------------------------------------
(* Classification                                                          *)

\* A variant whose safe band is closed at 2.99.
analysis_z_zone_mut(z) ==
    IF Ge(z, Lit(299, 100)) THEN "Safe"
    ELSE IF Le(Lit(181, 100), z) /\ Le(z, Lit(299, 100)) THEN "Gray"
    ELSE "Distress"

\* The analysis page's message under the Z-Score gauge.
analysis_z_zone(z) ==
    IF Gt(z, Lit(299, 100)) THEN "Safe"
    ELSE IF Le(Lit(181, 100), z) /\ Le(z, Lit(299, 100)) THEN "Gray"
    ELSE "Distress"

\* The report page's z_score_comment.
z_score_comment(z) ==
    IF Gt(z, Lit(299, 100)) THEN "Safe"
    ELSE IF Le(Lit(181, 100), z) /\ Le(z, Lit(299, 100)) THEN "Gray"
    ELSE "Distress"

\* The bands the home page documents for the Z-Score.
home_z_text(z) ==
    {b \in {"Safe", "Gray", "Distress"} :
        \/ b = "Safe" /\ Gt(z, Lit(299, 100))
        \/ b = "Gray" /\ Le(Lit(181, 100), z) /\ Le(z, Lit(299, 100))
        \/ b = "Distress" /\ Lt(z, Lit(181, 100))}

\* A variant whose strong band starts above 7.
analysis_f_strength_mut(f) ==
    IF f > 7 THEN "Strong"
    ELSE IF 4 <= f /\ f <= 6 THEN "Moderate"
    ELSE "Weak"

\* The analysis page's message under the F-Score gauge.
analysis_f_strength(f) ==
    IF f >= 7 THEN "Strong"
    ELSE IF 4 <= f /\ f <= 6 THEN "Moderate"
    ELSE "Weak"

\* The report page's f_score_comment.
f_score_comment(f) ==
    IF f >= 7 THEN "Strong"
    ELSE IF 4 <= f /\ f <= 6 THEN "Moderate"
    ELSE "Weak"

\* The bands the home page documents for the F-Score.
home_f_text(f) ==
    {b \in {"Strong", "Moderate", "Weak"} :
        \/ b = "Strong" /\ 7 <= f /\ f <= 9
        \/ b = "Moderate" /\ 4 <= f /\ f <= 6
        \/ b = "Weak" /\ f < 4}

----------------------------------------------------------------------------
(* The pages                                                               *)

Pages == {"Home", "Financial Analysis", "Financial Report", "Trade Data"}

ActivityNames == {"inventory_turnover", "days_of_inventory", "receivables_turnover",
                  "days_of_sales", "payable_turnover", "days_payables", "wc_turnover",
                  "fixed_asset_turnover", "total_asset_turnover"}
LiquidityNames == {"current_ratio", "quick_ratio", "cash_ratio"}
SolvencyNames == {"debt_to_equity", "debt_ratio", "equity_ratio",
                  "interest_coverage_ratio"}
ProfitabilityNames == {"gross_profit_margin", "net_profit_margin", "roa", "roe"}

NoRatios(names) == [p \in Periods |-> [r \in names |-> Unset]]

\* What one script run leaves behind: the renderer that ran, the st.error
\* messages, the exception that escaped the renderer, the sections shown,
\* and the ratios, scores and bands the run computed (Unset, -1 and "none"
\* for what it did not compute).
\* The sections of the dictionary handed to the PDF export.
SectionNames ==
    {"Profitability Ratios", "Activity Ratios", "Solvency Ratios", "Altman Z-Score",
     "Piotroski F-Score"}

\* The activity ratios that the dictionary lists.
ExportedActivity ==
    {"inventory_turnover", "days_of_inventory", "receivables_turnover", "days_of_sales"}

\* One entry of a section: {"beginning": ..., "end": ...}.
Entry(b, e) == [beginning |-> b, end |-> e]

\* A variant whose score entries carry the band next to the score.
ratio_groups_mut(g, z_score, piotroski_f_score) ==
    [section \in SectionNames |->
        CASE section = "Profitability Ratios" ->
               [r \in ProfitabilityNames |->
                   Entry(g.profitability["beginning"][r], g.profitability["end"][r])]
          [] section = "Activity Ratios" ->
               [r \in ExportedActivity |->
                   Entry(g.activity["beginning"][r], g.activity["end"][r])]
          [] section = "Solvency Ratios" ->
               [r \in SolvencyNames |->
                   Entry(g.solvency["beginning"][r], g.solvency["end"][r])]
          [] section = "Altman Z-Score" ->
               [r \in {"Altman Z-Score"} |->
                   [beginning |-> z_score, end |-> z_score,
                    band |-> analysis_z_zone(z_score)]]
          [] OTHER ->
               [r \in {"Piotroski F-Score"} |->
                   [beginning |-> piotroski_f_score, end |-> piotroski_f_score,
                    band |-> analysis_f_strength(piotroski_f_score)]]]

\* ratio_groups, built from the computed ratios g and the two scores.
ratio_groups(g, z_score, piotroski_f_score) ==
    [section \in SectionNames |->
        CASE section = "Profitability Ratios" ->
               [r \in ProfitabilityNames |->
                   Entry(g.profitability["beginning"][r], g.profitability["end"][r])]
          [] section = "Activity Ratios" ->
               [r \in ExportedActivity |->
                   Entry(g.activity["beginning"][r], g.activity["end"][r])]
          [] section = "Solvency Ratios" ->
               [r \in SolvencyNames |->
                   Entry(g.solvency["beginning"][r], g.solvency["end"][r])]
          [] section = "Altman Z-Score" ->
               [r \in {"Altman Z-Score"} |-> Entry(z_score, z_score)]
          [] OTHER ->
               [r \in {"Piotroski F-Score"} |->
                   Entry(piotroski_f_score, piotroski_f_score)]]

\* No dictionary was built.
NoGroups == [section \in {} |-> {}]

Blank ==
    [renderer |-> "none", errors |-> {}, escaped |-> "none", shown |-> {},
     activity |-> NoRatios(ActivityNames), liquidity |-> NoRatios(LiquidityNames),
     solvency |-> NoRatios(SolvencyNames),
     profitability |-> NoRatios(ProfitabilityNames),
     z_score |-> Unset, z_band |-> "none", f_score |-> -1, f_band |-> "none",
     ratio_groups |-> NoGroups, pdf_rows |-> NoGroups, temp_file |-> "none",
     downloaded |-> FALSE]

\* A variant that is content with either of the two sheets.
RequiredSheets_mut(file) == "SBD" \in file.sheets \/ "ODT" \in file.sheets

RequiredSheets(file) == "SBD" \in file.sheets /\ "ODT" \in file.sheets

\* pd.read_excel raises ValueError for a sheet the workbook does not hold.
ReadError(file) == IF SheetNames \subseteq file.sheets THEN "none" ELSE "ValueError"

LoadFrames(file) == [s \in SheetNames |-> DataFrame(file.tab[s])]

\* f"{v:.2f}": the number rounded to hundredths (ties to the even
\* neighbour), written here as the count of hundredths; inf is printed as
\* inf, nan as nan.
Format2(v) ==
    IF IsNum(v)
    THEN LET q == (100 * v.n) \div v.d
             r == 2 * (100 * v.n - q * v.d)
         IN  [text |-> "number",
              cents |-> IF r < v.d THEN q
                        ELSE IF r > v.d THEN q + 1
                        ELSE IF q % 2 = 0 THEN q ELSE q + 1]
    ELSE [text |-> CASE v.k = "pinf" -> "inf" [] v.k = "ninf" -> "-inf" [] OTHER -> "nan",
          cents |-> 0]

\* One cell of the PDF: f"{v:.2f}" if pd.notna(v) else "N/A".
pdf_value(v) ==
    IF v.k \in {"nan", "unset"} THEN [text |-> "N/A", cents |-> 0] ELSE Format2(v)

\* The value of an entry as a number: the F-Score is a Python int.
EntryValue(section, v) == IF section = "Piotroski F-Score" THEN Lit(v, 1) ELSE v

\* What the environment does to the export of one run: everything works,
\* NamedTemporaryFile raises, a later step of the generation raises (the
\* temporary file exists by then), or reading the file for the button raises.
PdfOutcomes == {"ok", "tempfile_raises", "generation_raises", "read_raises"}

\* generate_pdf_report_to_file: the path returned (None after an
\* exception), the rows written, the temporary file and the st.error.
generate_pdf_report_to_file(groups, env) ==
    IF env = "tempfile_raises"
    THEN [path |-> "None", rows |-> NoGroups, temp_file |-> "none",
          errors |-> {"PdfGenerationError"}]
    ELSE IF env = "generation_raises"
    THEN [path |-> "None", rows |-> NoGroups, temp_file |-> "exists",
          errors |-> {"PdfGenerationError"}]
    ELSE [path |-> "tmp.pdf",
          rows |-> [section \in DOMAIN groups |->
                      [r \in DOMAIN groups[section] |->
                          Entry(pdf_value(EntryValue(section, groups[section][r].beginning)),
                                pdf_value(EntryValue(section, groups[section][r].end)))]],
          temp_file |-> "exists", errors |-> {}]

\* show_pdf_download_button_with_file on what the generation left: nothing
\* happens for the path None; otherwise the file is read and the button is
\* drawn, an exception is reported, and the finally clause unlinks the file
\* before the function returns.
show_pdf_download_button_with_file(pdf, env) ==
    IF pdf.path = "None"
    THEN [shown |-> {}, errors |-> {},
          temp_file |-> IF pdf.temp_file = "exists" THEN "left" ELSE "none"]
    ELSE [shown |-> IF env = "read_raises" THEN {} ELSE {"pdf"},
          errors |-> IF env = "read_raises" THEN {"PdfDownloadError"} ELSE {},
          temp_file |-> "removed"]

\* The analysis page up to the dictionary handed to the export.
analysis_calculations(file) ==
    LET B == [Blank EXCEPT !.renderer = "show_analysis_page"]
        fr == LoadFrames(file)
        x == Extract(fr)
        xerr == ExtractionError(fr)
        groups == [B EXCEPT !.activity = [p \in Periods |-> activity_ratios(x, p)],
                            !.liquidity = [p \in Periods |-> liquidity_ratios(x, p)],
                            !.solvency = [p \in Periods |-> solvency_ratios(x, p)],
                            !.profitability = [p \in Periods |-> profitability_ratios(x, p)],
                            !.shown = {"activity", "liquidity", "solvency", "profitability"}
                                      \cup IF Gt(solvency_ratios(x, "end").debt_to_equity,
                                                 Lit(2, 1))
                                           THEN {"leverage_warning"} ELSE {},
                            !.f_score = calculate_piotroski_f_score(piotroski_data(x))]
        z_score == analysis_z_score(x)
    IN  IF file = NoFile THEN B
        ELSE IF ~RequiredSheets(file) THEN [B EXCEPT !.errors = {"RequiredSheetsNotFound"}]
        ELSE IF ReadError(file) # "none" THEN [B EXCEPT !.errors = {"FileProcessingError"}]
        ELSE IF xerr = "IndexError" THEN [B EXCEPT !.errors = {"DataExtractionError"}]
        ELSE IF xerr # "none" THEN [B EXCEPT !.errors = {"UnexpectedCalculationError"}]
        ELSE IF activity_error(x) # "none"
             THEN [B EXCEPT !.errors = {"UnexpectedCalculationError"}]
        ELSE IF analysis_z_error(x) # "none"
             THEN [groups EXCEPT !.errors = {"UnexpectedCalculationError"}]
        ELSE [groups EXCEPT !.z_score = z_score,
                            !.z_band = analysis_z_zone(z_score),
                            !.f_band = analysis_f_strength(groups.f_score),
                            !.ratio_groups = ratio_groups(groups, z_score, groups.f_score),
                            !.shown = groups.shown \cup {"z_gauge", "f_gauge"}]

\* The last two statements of the calculations: the PDF is generated from
\* the dictionary and the download button is drawn.
export_pdf(calc, env) ==
    IF calc.ratio_groups = NoGroups THEN calc
    ELSE LET pdf == generate_pdf_report_to_file(calc.ratio_groups, env)
             button == show_pdf_download_button_with_file(pdf, env)
         IN  [calc EXCEPT !.pdf_rows = pdf.rows,
                          !.temp_file = button.temp_file,
                          !.errors = pdf.errors \cup button.errors,
                          !.shown = calc.shown \cup button.shown]

show_analysis_page(file, env) == export_pdf(analysis_calculations(file), env)

show_report_page(file) ==
    LET B == [Blank EXCEPT !.renderer = "show_report_page"]
        \* The display block writes its first subheader, then reads a comment
        \* that was never assigned.
        crashed == [B EXCEPT !.errors = {"ReportProcessingError"},
                             !.shown = {"activity_subheader"},
                             !.escaped = "UnboundLocalError"]
        fr == LoadFrames(file)
        x == Extract(fr)
        xerr == ExtractionError(fr)
        z_score == report_z_score(x)
        piotroski_f_score == report_piotroski_f_score(piotroski_data(x))
    IN  IF file = NoFile THEN B
        ELSE IF ~RequiredSheets(file) THEN crashed
        ELSE IF ReadError(file) # "none" THEN crashed
        ELSE IF xerr = "KeyError" THEN [B EXCEPT !.errors = {"DataMissing"}]
        ELSE IF xerr = "IndexError" THEN [B EXCEPT !.errors = {"DataIndexError"}]
        ELSE IF xerr # "none" THEN crashed
        ELSE IF activity_error(x) # "none" THEN crashed
        ELSE [B EXCEPT !.activity = [p \in Periods |-> activity_ratios(x, p)],
                       !.liquidity = [p \in Periods |-> liquidity_ratios(x, p)],
                       !.solvency = [p \in Periods |-> solvency_ratios(x, p)],
                       !.profitability = [p \in Periods |-> profitability_ratios(x, p)],
                       !.z_score = z_score,
                       !.z_band = z_score_comment(z_score),
                       !.f_score = piotroski_f_score,
                       !.f_band = f_score_comment(piotroski_f_score),
                       !.shown = {"insights", "z_comment", "f_comment"}]

----------------------------------------------------------------------------
(* One script run: the sidebar selection sets st.session_state.page, then   *)
(* the renderer of that page runs                                          *)

\* No pure function is under test: no argument, no result.
NoArg == [fn |-> "none"]

\* No gauge was drawn.
NoGauge == [value |-> Unset, axis |-> <<Unset, Unset>>, steps |-> {}]

\* One coloured step of a gauge: {'range': [low, high], 'color': color}.
Step(low, high, color) == [range |-> <<low, high>>, color |-> color]

\* visualize_altman_z_score with max_range = 5: the value shown, the axis
\* [0, max(z_score + 1, max_range)] and the three steps.
visualize_altman_z_score(z_score) ==
    LET gauge_max == IF Gt(Lit(5, 1), Add(z_score, Lit(1, 1)))
                     THEN Lit(5, 1) ELSE Add(z_score, Lit(1, 1))
    IN  [value |-> z_score,
         axis |-> <<Lit(0, 1), gauge_max>>,
         steps |-> {Step(Lit(0, 1), Lit(18, 10), "#FF6666"),
                    Step(Lit(18, 10), Lit(3, 1), "#FFDD57"),
                    Step(Lit(3, 1), gauge_max, "#66CC66")}]

\* visualize_piotroski_f_score with max_score = 9.
visualize_piotroski_f_score(f_score) ==
    [value |-> Lit(f_score, 1),
     axis |-> <<Lit(0, 1), Lit(9, 1)>>,
     steps |-> {Step(Lit(0, 1), Lit(3, 1), "#FF6666"),
                Step(Lit(3, 1), Lit(6, 1), "#FFDD57"),
                Step(Lit(6, 1), Lit(9, 1), "#66CC66")}]

NoRet ==
    [fn |-> "none", analysis |-> "none", report |-> "none", home |-> {},
     f_analysis |-> -1, f_report |-> -1, error |-> "none", value |-> Unset,
     gauge |-> NoGauge]

\* The two entries of st.session_state that the script initialises next to
\* page and uploaded_file.
SessionEntries == [ratio_groups |-> NoGroups, pdf_file_path |-> "None"]

\* The options of the sidebar radio.
RadioOptions == {"Home", "Financial Analysis", "Financial Report", "MSE Trade Data"}

\* Largest number of files uploaded in one session.
MaxUploads == 2

\* The widgets: the option the radio holds, the file the uploader handed
\* over most recently, and the number of files it has handed over.
NoWidgets == [radio |-> "Home", uploader |-> NoFile, uploads |-> 0]

\* A variant that has no branch for the trade option.
Navigate_mut(option, current) ==
    CASE option = "Home" -> "Home"
      [] option = "Financial Analysis" -> "Financial Analysis"
      [] option = "Financial Report" -> "Financial Report"
      [] OTHER -> current

\* The sidebar's navigation logic: the page a radio option stands for.
Navigate(option, current) ==
    CASE option = "Home" -> "Home"
      [] option = "Financial Analysis" -> "Financial Analysis"
      [] option = "Financial Report" -> "Financial Report"
      [] option = "MSE Trade Data" -> "Trade Data"
      [] OTHER -> current

SessionInit ==
    /\ page = "Home"
    /\ uploaded_file = NoFile
    /\ out = Blank
    /\ arg = NoArg
    /\ ret = NoRet
    /\ session_state = SessionEntries
    /\ widgets = NoWidgets

\* A variant that stores an uploaded file only while the session holds none.
RunHome_mut ==
    /\ \E up \in {NoFile} \cup (IF widgets.uploads < MaxUploads THEN Uploads ELSE {}) :
          /\ uploaded_file' = IF up # NoFile /\ uploaded_file = NoFile
                               THEN up ELSE uploaded_file
          /\ widgets' = IF up # NoFile
                         THEN [radio |-> "Home", uploader |-> up,
                               uploads |-> widgets.uploads + 1]
                         ELSE [widgets EXCEPT !.radio = "Home"]
    /\ page' = Navigate("Home", page)
    /\ out' = [Blank EXCEPT !.renderer = "show_home_page"]
    /\ UNCHANGED <<arg, ret, session_state>>

\* The home page: the uploader holds no file or one of the workbooks.
RunHome ==
    /\ \E up \in {NoFile} \cup (IF widgets.uploads < MaxUploads THEN Uploads ELSE {}) :
          /\ uploaded_file' = IF up # NoFile THEN up ELSE uploaded_file
          /\ widgets' = IF up # NoFile
                         THEN [radio |-> "Home", uploader |-> up,
                               uploads |-> widgets.uploads + 1]
                         ELSE [widgets EXCEPT !.radio = "Home"]
    /\ page' = Navigate("Home", page)
    /\ out' = [Blank EXCEPT !.renderer = "show_home_page"]
    /\ UNCHANGED <<arg, ret, session_state>>

RunAnalysis ==
    /\ page' = Navigate("Financial Analysis", page)
    /\ widgets' = [widgets EXCEPT !.radio = "Financial Analysis"]
    /\ out' \in LET calc == analysis_calculations(uploaded_file)
               IN  {export_pdf(calc, env) : env \in PdfOutcomes}
    /\ UNCHANGED <<uploaded_file, arg, ret, session_state>>

RunReport ==
    /\ page' = Navigate("Financial Report", page)
    /\ widgets' = [widgets EXCEPT !.radio = "Financial Report"]
    /\ out' = show_report_page(uploaded_file)
    /\ UNCHANGED <<uploaded_file, arg, ret, session_state>>

\* A variant in which the run starts from a fresh session file.
RunTrade_mut ==
    /\ page' = Navigate("MSE Trade Data", page)
    /\ widgets' = [widgets EXCEPT !.radio = "MSE Trade Data"]
    /\ out' = Blank
    /\ uploaded_file' = NoFile
    /\ UNCHANGED <<arg, ret, session_state>>

\* The trade page has no renderer.
RunTrade ==
    /\ page' = Navigate("MSE Trade Data", page)
    /\ widgets' = [widgets EXCEPT !.radio = "MSE Trade Data"]
    /\ out' = Blank
    /\ UNCHANGED <<uploaded_file, arg, ret, session_state>>

\* The user clicks the download button of the report just drawn: the browser
\* saves the bytes that the button holds.  The script run that the click
\* triggers is a run of the analysis page.
Download ==
    /\ page = "Financial Analysis"
    /\ "pdf" \in out.shown
    /\ ~out.downloaded
    /\ out' = [out EXCEPT !.downloaded = TRUE]
    /\ UNCHANGED <<page, uploaded_file, arg, ret, session_state, widgets>>

Next == RunHome \/ RunAnalysis \/ RunReport \/ RunTrade \/ Download

Spec == SessionInit /\ [][Next]_vars

\* The computation specification: one workbook of Files is in the session
\* and the two pages are run on it.
CalcInit ==
    /\ page = "Home"
    /\ uploaded_file \in Files
    /\ out = [Blank EXCEPT !.renderer = "show_home_page"]
    /\ arg = NoArg
    /\ ret = NoRet
    /\ session_state = SessionEntries
    /\ widgets = [radio |-> "Home", uploader |-> uploaded_file, uploads |-> 1]

CalcNext == RunAnalysis \/ RunReport

CalcSpec == CalcInit /\ [][CalcNext]_vars

----------------------------------------------------------------------------
(* The pure functions on their own: an argument is drawn, the function is   *)
(* applied                                                                 *)

\* Largest Z-Score classified, in hundredths, and largest F-Score classified.
MaxZ == 400
MaxF == 10

Whole(v) == Num(v, 1, FALSE)

\* An (end, beginning) pair that rose, stayed or fell.
PairChoices == {<<MaxVal, 1>>, <<1, 1>>, <<1, MaxVal>>, <<-1, 0>>}

DataOf(ni, cf, roa, lev, cr, sh, gpm, tat) ==
    [net_income_end |-> Whole(ni), cash_flow |-> Whole(cf),
     roa_end |-> Whole(roa[1]), roa_beginning |-> Whole(roa[2]),
     leverage |-> Whole(lev[1]), prev_leverage |-> Whole(lev[2]),
     current_ratio_end |-> Whole(cr[1]), current_ratio_beginning |-> Whole(cr[2]),
     shares_outstanding |-> Whole(sh[1]), prev_shares_outstanding |-> Whole(sh[2]),
     gross_profit_margin_end |-> Whole(gpm[1]), gross_profit_margin_beginning |-> Whole(gpm[2]),
     total_asset_turnover_end |-> Whole(tat[1]), total_asset_turnover_beginning |-> Whole(tat[2])]

DataNames == DOMAIN DataOf(0, 0, <<0, 0>>, <<0, 0>>, <<0, 0>>, <<0, 0>>, <<0, 0>>, <<0, 0>>)

\* Dictionaries of numbers in every combination of the pairs' directions.
FullData ==
    {DataOf(ni, cf, roa, lev, cr, sh, gpm, tat) :
        ni \in -1..1, cf \in 0..MaxVal, roa \in PairChoices, lev \in PairChoices,
        cr \in PairChoices \ {<<-1, 0>>}, sh \in PairChoices \ {<<-1, 0>>},
        gpm \in PairChoices \ {<<-1, 0>>}, tat \in PairChoices \ {<<-1, 0>>}}

\* Dictionaries in which up to two entries are missing (nan).
MissingData ==
    {[n \in DataNames |-> IF n \in miss THEN NaN(FALSE) ELSE d[n]] :
        d \in {DataOf(1, cf, r, r, r, r, r, r) :
                 cf \in 0..MaxVal, r \in PairChoices \ {<<-1, 0>>}},
        miss \in {m \in SUBSET DataNames : Cardinality(m) \in {1, 2}}}

ZValues ==
    {Num(k, 100, FALSE) : k \in -MaxZ..MaxZ}
    \cup {Num(180999, 100000, FALSE), Num(299001, 100000, FALSE),
          NaN(FALSE), Inf(1, FALSE), Inf(-1, FALSE)}

Args ==
    {[fn |-> "piotroski", data |-> d, z |-> Zero, f |-> 0] : d \in FullData \cup MissingData}
    \cup {[fn |-> "z", data |-> DataOf(0, 0, <<0, 0>>, <<0, 0>>, <<0, 0>>, <<0, 0>>, <<0, 0>>, <<0, 0>>),
           z |-> v, f |-> 0] : v \in ZValues}
    \cup {[fn |-> "f", data |-> DataOf(0, 0, <<0, 0>>, <<0, 0>>, <<0, 0>>, <<0, 0>>, <<0, 0>>, <<0, 0>>),
           z |-> Zero, f |-> k] : k \in 0..MaxF}

FnInit ==
    /\ page = "Home"
    /\ uploaded_file = NoFile
    /\ out = Blank
    /\ arg \in Args
    /\ ret = NoRet
    /\ session_state = SessionEntries
    /\ widgets = NoWidgets

\* The accumulator of the analysis page.
CallAccumulator ==
    /\ arg.fn = "piotroski"
    /\ ret.f_analysis = -1
    /\ ret' = [ret EXCEPT !.fn = "piotroski",
                          !.f_analysis = calculate_piotroski_f_score(arg.data)]
    /\ UNCHANGED <<page, uploaded_file, out, arg, session_state, widgets>>

\* The dictionary sum of the report page.
CallDictionary ==
    /\ arg.fn = "piotroski"
    /\ ret.f_report = -1
    /\ ret' = [ret EXCEPT !.fn = "piotroski",
                          !.f_report = report_piotroski_f_score(arg.data)]
    /\ UNCHANGED <<page, uploaded_file, out, arg, session_state, widgets>>

ClassifyZ ==
    /\ arg.fn = "z"
    /\ ret.fn = "none"
    /\ ret' = [ret EXCEPT !.fn = "z",
                          !.gauge = visualize_altman_z_score(arg.z),
                          !.analysis = analysis_z_zone(arg.z),
                          !.report = z_score_comment(arg.z),
                          !.home = home_z_text(arg.z)]
    /\ UNCHANGED <<page, uploaded_file, out, arg, session_state, widgets>>

ClassifyF ==
    /\ arg.fn = "f"
    /\ ret.fn = "none"
    /\ ret' = [ret EXCEPT !.fn = "f",
                          !.gauge = visualize_piotroski_f_score(arg.f),
                          !.analysis = analysis_f_strength(arg.f),
                          !.report = f_score_comment(arg.f),
                          !.home = home_f_text(arg.f)]
    /\ UNCHANGED <<page, uploaded_file, out, arg, session_state, widgets>>

FnNext == CallAccumulator \/ CallDictionary \/ ClassifyZ \/ ClassifyF

FnSpec == FnInit /\ [][FnNext]_vars

----------------------------------------------------------------------------
(* One lookup on its own: a table, a label and a period column are drawn,   *)
(* the table is loaded and the lookup statement is run                     *)

\* Largest number of rows of a table.
MaxRows == 3

\* The label looked up, and labels that differ from it in case or spacing.
LabelChoices == {"inv", "Inv", "inv "}

\* The cells of a row: its beginning cell is one of these, its end cell the
\* next one.
CellCycle == <<EmptyCell, TextCell, NumCell(0), NumCell(MaxVal), NumStrCell(1)>>

TableRows ==
    {Row(l, CellCycle[i], CellCycle[(i % Len(CellCycle)) + 1]) :
        l \in LabelChoices, i \in DOMAIN CellCycle}

Tables == UNION {[1..n -> TableRows] : n \in 1..MaxRows}

LookupArgs ==
    {[fn |-> "lookup", table |-> t, label |-> "inv", col |-> c] :
        t \in Tables, c \in Periods}

LookupInit ==
    /\ page = "Home"
    /\ uploaded_file = NoFile
    /\ out = Blank
    /\ arg \in LookupArgs
    /\ ret = NoRet
    /\ session_state = SessionEntries
    /\ widgets = NoWidgets

\* pd.to_numeric(df.loc[df[label column] == label, col].values[0],
\* errors='coerce') on the loaded table.
Lookup ==
    /\ arg.fn = "lookup"
    /\ ret.fn = "none"
    /\ ret' = [ret EXCEPT !.fn = "lookup",
                          !.error = LookupError(DataFrame(arg.table), arg.label, arg.col),
                          !.value = to_numeric(DataFrame(arg.table), arg.label, arg.col)]
    /\ UNCHANGED <<page, uploaded_file, out, arg, session_state, widgets>>

LookupNext == Lookup

LookupSpec == LookupInit /\ [][LookupNext]_vars

----------------------------------------------------------------------------
(* Properties.  They read the workbook's cells directly: Raw(item, p) is    *)
(* the integer in the first row labelled item, Present(item, p) says that   *)
(* this cell holds a number.                                               *)

SheetOf(item) ==
    IF item \in SheetItems("ODT") THEN "ODT"
    ELSE IF item = "cash_flow" THEN "MGT" ELSE "SBD"

AllItems == SheetItems("SBD") \cup SheetItems("ODT") \cup SheetItems("MGT")

RowsOf(item) ==
    {i \in DOMAIN uploaded_file.tab[SheetOf(item)] :
        uploaded_file.tab[SheetOf(item)][i].label = item}

FirstCell(item, p) == uploaded_file.tab[SheetOf(item)][Min(RowsOf(item))][p]

Present(item, p) == RowsOf(item) # {} /\ FirstCell(item, p).t \in {"num", "numstr"}

Raw(item, p) == IF RowsOf(item) # {} THEN FirstCell(item, p).v ELSE 0

MissingLabels == {item \in AllItems : RowsOf(item) = {}}

\* Every sheet is there and each holds both value columns.
SheetsComplete ==
    /\ uploaded_file.sheets = SheetNames
    /\ \A s \in {"SBD", "ODT", "MGT"} : \A p \in Periods :
          \E i \in DOMAIN uploaded_file.tab[s] : uploaded_file.tab[s][i][p].t # "empty"

PageRan == out.renderer \in {"show_analysis_page", "show_report_page"}

RatiosComputed == out.liquidity["end"].current_ratio.k # "unset"

Groups == {"activity", "liquidity", "solvency", "profitability"}

NamesOf(g) ==
    CASE g = "activity" -> ActivityNames
      [] g = "liquidity" -> LiquidityNames
      [] g = "solvency" -> SolvencyNames
      [] OTHER -> ProfitabilityNames

RatioNames == ActivityNames \cup LiquidityNames \cup SolvencyNames \cup ProfitabilityNames

\* The documented formula of each ratio in period p as a fraction num/den of
\* integers, the items it uses, and the quantities that must not be zero.
Formulas(p) ==
    LET cash == Raw("cash", p)
        ar == Raw("ar", p)
        ap == Raw("ap", p)
        ca == Raw("ca", p)
        cl == Raw("cl", p)
        inv == Raw("inv", p)
        ta == Raw("total_assets", p)
        te == Raw("total_equity", p)
        sts == Raw("sts", p)
        fa == Raw("fa", p)
        tl == Raw("stl", p) + Raw("ltl", p)
        revenue == Raw("revenue", p)
        cogs == Raw("cogs", p)
        gp == Raw("gross_profit", p)
        ni == Raw("net_income", p)
        ie == Raw("interest_expense", p)
    IN  [r \in RatioNames |->
        CASE r = "inventory_turnover" ->
               [num |-> cogs, den |-> inv, uses |-> {"cogs", "inv"}, nz |-> {inv}]
          [] r = "days_of_inventory" ->
               [num |-> 365 * inv, den |-> cogs, uses |-> {"cogs", "inv"}, nz |-> {inv, cogs}]
          [] r = "receivables_turnover" ->
               [num |-> revenue, den |-> ar, uses |-> {"revenue", "ar"}, nz |-> {ar}]
          [] r = "days_of_sales" ->
               [num |-> 365 * ar, den |-> revenue, uses |-> {"revenue", "ar"},
                nz |-> {ar, revenue}]
          [] r = "payable_turnover" ->
               [num |-> cogs, den |-> ap, uses |-> {"cogs", "ap"}, nz |-> {ap}]
          [] r = "days_payables" ->
               [num |-> 365 * ap, den |-> cogs, uses |-> {"cogs", "ap"}, nz |-> {ap, cogs}]
          [] r = "wc_turnover" ->
               [num |-> revenue, den |-> ca - cl, uses |-> {"revenue", "ca", "cl"},
                nz |-> {ca - cl}]
          [] r = "fixed_asset_turnover" ->
               [num |-> revenue, den |-> fa, uses |-> {"revenue", "fa"}, nz |-> {fa}]
          [] r = "total_asset_turnover" ->
               [num |-> revenue, den |-> ta, uses |-> {"revenue", "total_assets"},
                nz |-> {ta}]
          [] r = "current_ratio" ->
               [num |-> ca, den |-> cl, uses |-> {"ca", "cl"}, nz |-> {cl}]
          [] r = "quick_ratio" ->
               [num |-> cash + sts + ar, den |-> cl, uses |-> {"cash", "sts", "ar", "cl"},
                nz |-> {cl}]
          [] r = "cash_ratio" ->
               [num |-> cash + sts, den |-> cl, uses |-> {"cash", "sts", "cl"}, nz |-> {cl}]
          [] r = "debt_to_equity" ->
               [num |-> tl, den |-> te, uses |-> {"stl", "ltl", "total_equity"}, nz |-> {te}]
          [] r = "debt_ratio" ->
               [num |-> tl, den |-> ta, uses |-> {"stl", "ltl", "total_assets"}, nz |-> {ta}]
          [] r = "equity_ratio" ->
               [num |-> te, den |-> ta, uses |-> {"total_equity", "total_assets"},
                nz |-> {ta}]
          [] r = "interest_coverage_ratio" ->
               [num |-> ni, den |-> ie, uses |-> {"net_income", "interest_expense"},
                nz |-> {ie}]
          [] r = "gross_profit_margin" ->
               [num |-> 100 * gp, den |-> revenue, uses |-> {"gross_profit", "revenue"},
                nz |-> {revenue}]
          [] r = "net_profit_margin" ->
               [num |-> 100 * ni, den |-> revenue, uses |-> {"net_income", "revenue"},
                nz |-> {revenue}]
          [] r = "roa" ->
               [num |-> 100 * ni, den |-> ta, uses |-> {"net_income", "total_assets"},
                nz |-> {ta}]
          [] OTHER ->
               [num |-> 100 * ni, den |-> te, uses |-> {"net_income", "total_equity"},
                nz |-> {te}]]

PresentItems(p) == {item \in AllItems : Present(item, p)}

\* Every operand of ratio r is a number and no denominator is zero.
DefinedBy(F, present) == 0 \notin F.nz /\ F.uses \subseteq present

Defined(r, p) == DefinedBy(Formulas(p)[r], PresentItems(p))

\* C1: on both pages, for every ratio of the four categories and each
\* period, when all operands are present and the denominator is not zero the
\* computed value is the documented numerator over the documented
\* denominator (profitability times 100, total liabilities = short-term +
\* long-term loans), a function of that period's cells alone.
C1_RatioFormulas ==
    (PageRan /\ RatiosComputed) =>
        \A p \in Periods :
            LET F == Formulas(p)
                present == PresentItems(p)
            IN  \A g \in Groups : \A r \in NamesOf(g) :
                    DefinedBy(F[r], present) =>
                        /\ IsNum(out[g][p][r])
                        /\ out[g][p][r].n * F[r].den = out[g][p][r].d * F[r].num

\* C1 witness: the analysis page has computed the quick ratio (20+10+30)/50
\* of the scenario workbook's end period while its beginning is (15+5+25)/60.
C1_Witness ==
    /\ out.renderer = "show_analysis_page"
    /\ \A r \in LiquidityNames : \A p \in Periods : Defined(r, p)
    /\ SameVal(out.liquidity["end"].quick_ratio, Lit(6, 5))
    /\ SameVal(out.liquidity["beginning"].quick_ratio, Lit(3, 4))

\* C2 (as claimed): in a workbook with every sheet, column and label, no
\* ratio computation raises, and every ratio with a missing operand or a
\* zero denominator is nan.
C2_MissingGivesSentinel ==
    (PageRan /\ SheetsComplete /\ MissingLabels = {}) =>
        /\ out.errors = {}
        /\ out.escaped = "none"
        /\ RatiosComputed
        /\ \A p \in Periods :
              LET F == Formulas(p)
                  present == PresentItems(p)
              IN  \A g \in Groups : \A r \in NamesOf(g) :
                      ~DefinedBy(F[r], present) => IsNaN(out[g][p][r])

\* The end-of-period components of the Z-Score are all numbers and neither
\* total is zero.
ZDefined ==
    /\ \A item \in {"ca", "cl", "total_assets", "re", "ebit", "total_equity", "stl", "ltl"} :
          Present(item, "end")
    /\ Raw("total_assets", "end") # 0
    /\ Raw("stl", "end") + Raw("ltl", "end") # 0

\* The figures of the documented example: total assets 1000, working capital
\* 50, retained earnings 200, EBIT 80, equity 400, liabilities 600.
ZExample ==
    /\ ZDefined
    /\ Raw("total_assets", "end") = 1000
    /\ Raw("ca", "end") - Raw("cl", "end") = 50
    /\ Raw("re", "end") = 200
    /\ Raw("ebit", "end") = 80
    /\ Raw("total_equity", "end") = 400
    /\ Raw("stl", "end") + Raw("ltl", "end") = 600

\* C3: on both pages the Z-Score is 6.56*A + 3.26*B + 6.72*C + 1.05*D of the
\* end-of-period cells alone, with A = (ca - cl)/ta, B = re/ta, C = ebit/ta
\* and D = te/(stl + ltl); for the documented example it lies within 0.0005
\* of 2.218 and is banded Gray.
C3_AltmanZ ==
    (PageRan /\ out.z_band # "none" /\ ZDefined) =>
        LET ta == Raw("total_assets", "end")
            tl == Raw("stl", "end") + Raw("ltl", "end")
            wc == Raw("ca", "end") - Raw("cl", "end")
            sum == (656 * wc + 326 * Raw("re", "end")
                    + 672 * Raw("ebit", "end")) * tl
                   + 105 * Raw("total_equity", "end") * ta
        IN  /\ SameVal(out.z_score, Num(sum, 100 * ta * tl, FALSE))
            /\ ZExample =>
                  /\ 22175 * out.z_score.d < 10000 * out.z_score.n
                  /\ 10000 * out.z_score.n < 22185 * out.z_score.d
                  /\ out.z_band = "Gray"

\* C3 witness: the analysis page has computed the example's Z-Score,
\* 1386/625 = 2.2176, and banded it Gray.
C3_Witness ==
    /\ out.renderer = "show_analysis_page"
    /\ ZExample
    /\ SameVal(out.z_score, Lit(1386, 625))
    /\ out.z_band = "Gray"

\* The band of the fraction n/d (d positive) by the documented thresholds.
BandOf(n, d) ==
    IF 100 * n > 299 * d THEN "Safe"
    ELSE IF 100 * n >= 181 * d THEN "Gray"
    ELSE "Distress"

\* C4: every numeric Z is given exactly one band, the same by the analysis
\* page, the report page and the home page's text: Safe above 2.99, Gray
\* from 1.81 to 2.99 inclusive, Distress below 1.81; 2.99 and 1.81 are Gray
\* and 1.80999 is Distress.
C4_ZBands ==
    (ret.fn = "z" /\ IsNum(arg.z)) =>
        /\ ret.analysis = BandOf(arg.z.n, arg.z.d)
        /\ ret.report = BandOf(arg.z.n, arg.z.d)
        /\ ret.home = {BandOf(arg.z.n, arg.z.d)}
        /\ SameVal(arg.z, Lit(299, 100)) => ret.analysis = "Gray" /\ ret.report = "Gray"
        /\ SameVal(arg.z, Lit(181, 100)) => ret.analysis = "Gray" /\ ret.report = "Gray"
        /\ SameVal(arg.z, Lit(180999, 100000)) =>
              ret.analysis = "Distress" /\ ret.report = "Distress"

\* C4 witness: 2.99 has been classified, as Gray.
C4_Witness ==
    /\ ret.fn = "z"
    /\ SameVal(arg.z, Lit(299, 100))
    /\ ret.analysis = "Gray"
    /\ ret.report = "Gray"
    /\ ret.home = {"Gray"}

\* C5: every integer score is given exactly one band, the same on the
\* analysis and the report page (and in the home page's text for the scores
\* it documents): Strong from 7, Moderate from 4 to 6, Weak below 4.
C5_FBands ==
    ret.fn = "f" =>
        LET band == IF arg.f >= 7 THEN "Strong"
                    ELSE IF arg.f >= 4 THEN "Moderate" ELSE "Weak"
        IN  /\ ret.analysis = band
            /\ ret.report = band
            /\ arg.f <= 9 => ret.home = {band}
            /\ arg.f = 7 => ret.analysis = "Strong"
            /\ arg.f = 6 => ret.analysis = "Moderate"
            /\ arg.f = 3 => ret.analysis = "Weak"

\* C5 witness: the score 7 has been classified, as Strong.
C5_Witness ==
    /\ ret.fn = "f"
    /\ arg.f = 7
    /\ ret.analysis = "Strong"
    /\ ret.report = "Strong"

\* a > b of two entries of the dictionary: both are numbers and a exceeds b.
Exceeds(a, b) == IsNum(a) /\ IsNum(b) /\ a.n * b.d > b.n * a.d

\* The signals of the dictionary d that are true, numbered as documented.
TrueSignals(d) ==
    {k \in 1..9 :
        \/ k = 1 /\ Exceeds(d.net_income_end, Zero)
        \/ k = 2 /\ Exceeds(d.roa_end, d.roa_beginning)
        \/ k = 3 /\ Exceeds(d.cash_flow, Zero)
        \/ k = 4 /\ Exceeds(d.cash_flow, d.net_income_end)
        \/ k = 5 /\ Exceeds(d.prev_leverage, d.leverage)
        \/ k = 6 /\ Exceeds(d.current_ratio_end, d.current_ratio_beginning)
        \/ k = 7 /\ IsNum(d.shares_outstanding) /\ IsNum(d.prev_shares_outstanding)
                 /\ ~Exceeds(d.shares_outstanding, d.prev_shares_outstanding)
        \/ k = 8 /\ Exceeds(d.gross_profit_margin_end, d.gross_profit_margin_beginning)
        \/ k = 9 /\ Exceeds(d.total_asset_turnover_end, d.total_asset_turnover_beginning)}

\* C6: calculate_piotroski_f_score returns the number of the nine signals
\* that are true, an integer from 0 to 9.
C6_SignalCount ==
    ret.f_analysis # -1 =>
        /\ ret.f_analysis = Cardinality(TrueSignals(arg.data))
        /\ ret.f_analysis \in 0..9

\* C6 witness: the accumulator has returned 4 for a dictionary in which
\* exactly four signals are true.
C6_Witness ==
    /\ arg.fn = "piotroski"
    /\ ret.f_analysis = 4
    /\ Cardinality(TrueSignals(arg.data)) = 4

\* C7 (as claimed): the accumulator and the dictionary sum give the same
\* score for the same dictionary.
C7_SameScore ==
    (ret.f_analysis # -1 /\ ret.f_report # -1) => ret.f_analysis = ret.f_report

\* C8 (as claimed): on either page, a Piotroski score that has been
\* classified is an integer from 0 to 9.
C8_ScoreRange ==
    (PageRan /\ out.f_band # "none") => out.f_score \in 0..9

\* The run computed no ratio, score or band and displayed none.
NothingComputed ==
    /\ \A g \in Groups : out[g] = NoRatios(NamesOf(g))
    /\ out.z_score = Unset
    /\ out.z_band = "none"
    /\ out.f_score = -1
    /\ out.f_band = "none"
    /\ out.shown \subseteq {"activity_subheader"}

\* The quotient leverage of period p raises before the share lookups are
\* reached: the balance sheet's column p holds Python scalars (some cell of
\* it is a text), total assets are the integer 0 and long-term loans are a
\* number or an empty cell.
LeverageRaises(p) ==
    /\ RowsOf("ltl") # {}
    /\ RowsOf("total_assets") # {}
    /\ \E i \in DOMAIN uploaded_file.tab["SBD"] :
          uploaded_file.tab["SBD"][i][p].t \in {"text", "numstr"}
    /\ FirstCell("total_assets", p) = NumCell(0)
    /\ FirstCell("ltl", p).t \in {"num", "empty"}

RequiredSheetAbsent ==
    /\ uploaded_file # NoFile
    /\ ~({"SBD", "ODT"} \subseteq uploaded_file.sheets)

\* C10: when the balance sheet or the income statement is absent from the
\* upload, either page ends with an error message and computes and displays
\* no ratio, score or band; the analysis page's message is that the required
\* sheets are not found.
C10_RequiredSheetAbsent ==
    (PageRan /\ RequiredSheetAbsent) =>
        /\ out.errors # {}
        /\ NothingComputed
        /\ out.renderer = "show_analysis_page" =>
              out.errors = {"RequiredSheetsNotFound"} /\ out.escaped = "none"

\* C10 witness: the report page has run on an upload without the income
\* statement and ended with an error.
C10_Witness ==
    /\ out.renderer = "show_report_page"
    /\ uploaded_file # NoFile
    /\ "ODT" \notin uploaded_file.sheets
    /\ "SBD" \in uploaded_file.sheets
    /\ out.errors # {}
    /\ NothingComputed

\* The upload holds the balance sheet and the income statement but lacks
\* the cash-flow or the retained-earnings sheet.
OptionalSheetAbsent ==
    /\ uploaded_file # NoFile
    /\ {"SBD", "ODT"} \subseteq uploaded_file.sheets
    /\ uploaded_file.sheets # SheetNames

\* C11 (as claimed): with only an optional sheet absent the run raises no
\* error and still computes the ratios, the Z-Score and the F-Score.
C11_OptionalSheetDegrades ==
    (PageRan /\ OptionalSheetAbsent) =>
        /\ out.errors = {}
        /\ out.escaped = "none"
        /\ RatiosComputed
        /\ out.z_band # "none"
        /\ out.f_band # "none"

\* The entries of the dictionary that signal k compares.
Operands(k) ==
    CASE k = 1 -> {"net_income_end"}
      [] k = 2 -> {"roa_end", "roa_beginning"}
      [] k = 3 -> {"cash_flow"}
      [] k = 4 -> {"cash_flow", "net_income_end"}
      [] k = 5 -> {"leverage", "prev_leverage"}
      [] k = 6 -> {"current_ratio_end", "current_ratio_beginning"}
      [] k = 7 -> {"shares_outstanding", "prev_shares_outstanding"}
      [] k = 8 -> {"gross_profit_margin_end", "gross_profit_margin_beginning"}
      [] OTHER -> {"total_asset_turnover_end", "total_asset_turnover_beginning"}

\* The signals of the dictionary d that have a missing operand.
MissingSignals(d) == {k \in 1..9 : \E n \in Operands(k) : IsNaN(d[n])}

\* C12 (as claimed): when m >= 1 of the nine signals have a missing operand,
\* the score of the accumulator and the score of the report page's
\* dictionary sum are both at most 9 - m.
C12_MissingNotCounted ==
    (arg.fn = "piotroski" /\ MissingSignals(arg.data) # {}) =>
        /\ ret.f_analysis # -1 =>
              ret.f_analysis <= 9 - Cardinality(MissingSignals(arg.data))
        /\ ret.f_report # -1 =>
              ret.f_report <= 9 - Cardinality(MissingSignals(arg.data))

\* The line items the Z-Score is computed from.
ZComponents == {"ca", "cl", "total_assets", "re", "ebit", "total_equity", "stl", "ltl"}

\* Some component of the Z-Score has its row but no number at year end.
ZComponentMissing ==
    \E item \in ZComponents : RowsOf(item) # {} /\ ~Present(item, "end")

\* C13: on both pages, a Z-Score computed while one of its components is
\* missing is itself missing (nan): no missing term is dropped or counted
\* as zero.
C13_ZMissing ==
    (PageRan /\ out.z_score.k # "unset" /\ ZComponentMissing) => IsNaN(out.z_score)

\* C13 witness: the report page has computed the Z-Score of a workbook whose
\* retained earnings at year end are not a number while every other
\* component is, and the score is nan.
C13_Witness ==
    /\ out.renderer = "show_report_page"
    /\ RowsOf("re") # {}
    /\ ~Present("re", "end")
    /\ \A item \in ZComponents \ {"re"} : Present(item, "end")
    /\ Raw("total_assets", "end") # 0
    /\ IsNaN(out.z_score)

\* The days ratios with the turnover each is derived from.
DaysOf ==
    [days_of_inventory |-> "inventory_turnover",
     days_of_sales |-> "receivables_turnover",
     days_payables |-> "payable_turnover"]

\* No unguarded quotient has a zero denominator: working capital and total
\* assets are not zero in either period.
NoZeroTotals ==
    \A p \in Periods :
        Raw("ca", p) # Raw("cl", p) /\ Raw("total_assets", p) # 0

\* C14: on both pages and in each period, a days ratio is 365 over its
\* turnover when the turnover is a number other than zero and nan when the
\* turnover is nan or zero; an inventory of zero gives a nan inventory
\* turnover and nan days of inventory, and the ratios are computed without
\* an error.
C14_DaysRatios ==
    /\ (PageRan /\ RatiosComputed) =>
          \A p \in Periods : \A dr \in DOMAIN DaysOf :
              LET t == out.activity[p][DaysOf[dr]]
                  days == out.activity[p][dr]
              IN  /\ (IsNum(t) /\ t.n # 0) =>
                        IsNum(days) /\ days.n * t.n = 365 * days.d * t.d
                  /\ (IsNaN(t) \/ IsZero(t)) => IsNaN(days)
    /\ (PageRan /\ SheetsComplete /\ MissingLabels = {} /\ NoZeroTotals) =>
          \A p \in Periods :
              (Present("inv", p) /\ Raw("inv", p) = 0) =>
                  /\ RatiosComputed
                  /\ out.escaped = "none"
                  /\ IsNaN(out.activity[p].inventory_turnover)
                  /\ IsNaN(out.activity[p].days_of_inventory)

\* C14 witness: the analysis page has run on a workbook whose year-end
\* inventory is 0 and whose cost of goods sold is a number: inventory
\* turnover and days of inventory are nan at year end, while days of sales
\* is 365 over the receivables turnover.
C14_Witness ==
    /\ out.renderer = "show_analysis_page"
    /\ Present("inv", "end")
    /\ Raw("inv", "end") = 0
    /\ Present("cogs", "end")
    /\ out.errors = {}
    /\ IsNaN(out.activity["end"].inventory_turnover)
    /\ IsNaN(out.activity["end"].days_of_inventory)
    /\ IsNum(out.activity["end"].days_of_sales)

\* C15 (as claimed): working capital turnover is revenue over current
\* assets less current liabilities in each period, and when the two are
\* equal the ratio is nan and no error is raised.
C15_ZeroWorkingCapital ==
    (PageRan /\ SheetsComplete /\ MissingLabels = {}
       /\ \A q \in Periods : Raw("total_assets", q) # 0) =>
        \A p \in Periods :
            (Present("ca", p) /\ Present("cl", p) /\ Present("revenue", p)) =>
                IF Raw("ca", p) = Raw("cl", p)
                THEN /\ out.errors = {}
                     /\ out.escaped = "none"
                     /\ IsNaN(out.activity[p].wc_turnover)
                ELSE RatiosComputed =>
                       /\ IsNum(out.activity[p].wc_turnover)
                       /\ out.activity[p].wc_turnover.n * (Raw("ca", p) - Raw("cl", p))
                            = out.activity[p].wc_turnover.d * Raw("revenue", p)

\* The rows of the looked-up table whose label is exactly the label asked.
ExactRows == {i \in DOMAIN arg.table : arg.table[i].label = arg.label}

\* The first of them in table order.
FirstExact == CHOOSE i \in ExactRows : \A j \in ExactRows : i <= j

\* C16 (as claimed): when the label has a row and the cell of that row in
\* the requested column is empty or not a number, the lookup raises nothing
\* and yields nan.
C16_CoercedToMissing ==
    (ret.fn = "lookup" /\ ExactRows # {}
       /\ arg.table[FirstExact][arg.col].t \in {"empty", "text"}) =>
        /\ ret.error = "none"
        /\ IsNaN(ret.value)

\* The requested column survives loading: some row has a filled cell in it.
ColumnKept == \E i \in DOMAIN arg.table : arg.table[i][arg.col].t # "empty"

\* C17: in either period column, the lookup returns the value of the first
\* row in table order whose label is exactly the label asked, however many
\* rows carry it; a row whose label differs in case or spacing is never
\* selected, so that a table with only such rows gives IndexError.
C17_FirstMatch ==
    (ret.fn = "lookup" /\ ColumnKept) =>
        IF ExactRows = {} THEN ret.error = "IndexError"
        ELSE LET cell == arg.table[FirstExact][arg.col]
             IN  /\ ret.error = "none"
                 /\ cell.t \in {"num", "numstr"} =>
                       IsNum(ret.value) /\ ret.value.n = cell.v /\ ret.value.d = 1
                 /\ cell.t \in {"empty", "text"} => IsNaN(ret.value)

\* C17 witness: a row labelled in another case comes first, two rows carry
\* the exact label with different numbers in the requested column, and the
\* lookup has returned the number of the first of the two.
C17_Witness ==
    /\ ret.fn = "lookup"
    /\ Len(arg.table) = 3
    /\ arg.table[1].label = "Inv"
    /\ ExactRows = {2, 3}
    /\ arg.table[2][arg.col] = NumCell(MaxVal)
    /\ arg.table[3][arg.col] = NumCell(0)
    /\ arg.table[1][arg.col] = NumCell(0)
    /\ IsNum(ret.value)
    /\ ret.value.n = MaxVal

\* The analysis page has built ratio_groups and handed it to the export.
Exported == out.renderer = "show_analysis_page" /\ "pdf" \in out.shown

\* The section under which the export would list the ratios of a group.
SectionOf(g) ==
    CASE g = "activity" -> "Activity Ratios"
      [] g = "liquidity" -> "Liquidity Ratios"
      [] g = "solvency" -> "Solvency Ratios"
      [] OTHER -> "Profitability Ratios"

\* C19 (as claimed): the dictionary handed to the export has a section for
\* each of the four groups that holds every ratio of the group with the
\* beginning and end value the page computed, and a section for each score.
C19_AllGroupsExported ==
    Exported =>
        /\ \A g \in Groups :
              /\ SectionOf(g) \in DOMAIN out.ratio_groups
              /\ \A r \in NamesOf(g) :
                    /\ r \in DOMAIN out.ratio_groups[SectionOf(g)]
                    /\ \A p \in Periods :
                          out.ratio_groups[SectionOf(g)][r][p] = out[g][p][r]
        /\ {"Altman Z-Score", "Piotroski F-Score"} \subseteq DOMAIN out.ratio_groups

\* The section of a composite score holds more than the score's two
\* numbers: a further entry, or a further key in the score's entry.
HoldsMore(score) ==
    \/ DOMAIN out.ratio_groups[score] # {score}
    \/ DOMAIN out.ratio_groups[score][score] # {"beginning", "end"}

----------------------------------------------------------------------------
(* The exported report                                                     *)

\* The run wrote the rows of the PDF.
PdfWritten == out.renderer = "show_analysis_page" /\ out.pdf_rows # NoGroups

\* The cells of the dictionary handed to the export: section, ratio, period.
ExportedCells ==
    {<<section, r, p>> \in SectionNames
                           \X (ProfitabilityNames \cup ExportedActivity \cup SolvencyNames
                               \cup {"Altman Z-Score", "Piotroski F-Score"})
                           \X Periods :
        r \in DOMAIN out.ratio_groups[section]}

\* The exported value of a cell as a number (the F-Score is an integer).
ExportedValue(c) ==
    IF c[1] = "Piotroski F-Score"
    THEN Num(out.ratio_groups[c[1]][c[2]][c[3]], 1, TRUE)
    ELSE out.ratio_groups[c[1]][c[2]][c[3]]

PdfCell(c) == out.pdf_rows[c[1]][c[2]][c[3]]

\* C21: in the exported report every missing beginning or end value is
\* rendered as "N/A" and every present value as its number with two decimals
\* (within half a hundredth of the value): a missing value is never rendered
\* as a number, a present one never as "N/A".
C21_PdfCells ==
    PdfWritten =>
        \A c \in ExportedCells :
            LET v == ExportedValue(c)
                t == PdfCell(c)
            IN  IF IsNaN(v)
                THEN t.text = "N/A"
                ELSE /\ t.text = "number"
                     /\ IsNum(v)
                     /\ Abs(200 * v.n - 2 * t.cents * v.d) <= v.d

----------------------------------------------------------------------------
(* The two pages on the same workbook                                      *)

\* A step from the result of one page to the result of the other page on
\* the same workbook.
OtherPage ==
    /\ PageRan
    /\ out'.renderer \in {"show_analysis_page", "show_report_page"}
    /\ out'.renderer # out.renderer
    /\ uploaded_file' = uploaded_file

\* C22: the analysis page and the report page compute the same Z-Score and
\* the same band from the same workbook, for all inputs, those with total
\* assets (end) = 0 or total liabilities (end) = 0 included: whenever one of
\* the two pages reports a Z-Score, the other reports the same value and band.
C22_SameZ ==
    [][(OtherPage /\ (out.z_band # "none" \/ out'.z_band # "none"))
          => /\ out'.z_band = out.z_band
             /\ SameVal(out'.z_score, out.z_score)]_vars

\* C23: a Z-Score is reported in the Distress band only when it is a number
\* below 1.81; a missing Z-Score (nan) is not a number below 1.81 and is
\* assigned none of the bands Distress, Gray and Safe.
C23_MissingZUnbanded ==
    PageRan =>
        /\ out.z_band = "Distress" => IsNum(out.z_score) /\ Lt(out.z_score, Lit(181, 100))
        /\ IsNaN(out.z_score) => out.z_band \notin {"Distress", "Gray", "Safe"}

----------------------------------------------------------------------------
(* Failures on the report page                                             *)

\* C24: on the report page, whenever processing fails (a required sheet is
\* absent, a label is absent, or any other exception is raised during the
\* calculations) an error is reported, no insight section is rendered, no
\* uncomputed comment or score is read by the display, and no exception
\* escapes show_report_page.
C24_ReportFailureContained ==
    (out.renderer = "show_report_page" /\ uploaded_file # NoFile
        /\ "insights" \notin out.shown)
        => /\ out.errors # {}
           /\ out.shown = {}
           /\ out.escaped = "none"

----------------------------------------------------------------------------
(* The session                                                             *)

----------------------------------------------------------------------------
(* The temporary file of the export                                        *)

\* C26: show_pdf_download_button_with_file removes the file after the
\* download: once it has returned for a path that is not empty the file no
\* longer exists, whether or not reading the file or building the button
\* failed, and the file is not removed before the user has downloaded the
\* report.
C26_RemovedAfterDownload ==
    out.renderer = "show_analysis_page" =>
        /\ ("pdf" \in out.shown \/ "PdfDownloadError" \in out.errors)
              => out.temp_file = "removed"
        /\ out.temp_file = "removed" => out.downloaded

\* C27: every temporary file created by generate_pdf_report_to_file is
\* deleted by the end of the analysis-page run that created it, on the
\* successful path and on the path where the generation raises, reports the
\* error and returns None: no run leaves a temporary PDF behind.
C27_NoTempFileLeft ==
    out.renderer = "show_analysis_page" => out.temp_file \in {"none", "removed"}

\* A visit of the analysis or the report page found a file: it went past the
\* test of st.session_state.uploaded_file.
FoundFile == out.errors # {} \/ out.shown # {}

\* A script run changes the session file only on the Home page, and only to
\* the file the uploader handed over.
FileKept ==
    uploaded_file' # uploaded_file =>
        /\ page' = "Home"
        /\ uploaded_file' # NoFile
        /\ uploaded_file' = widgets'.uploader
        /\ widgets'.uploads = widgets.uploads + 1

\* C28: st.session_state.uploaded_file changes only when a file is uploaded
\* on the Home page; navigating between pages never resets it to None, so
\* once a file was uploaded the analysis and the report page find it on every
\* later visit, and before any upload neither page computes anything.
C28_FileKept ==
    /\ [][FileKept]_vars
    /\ [](widgets.uploads > 0 => uploaded_file # NoFile)
    /\ []((PageRan /\ widgets.uploads > 0) => FoundFile)
    /\ []((PageRan /\ widgets.uploads = 0) =>
              NothingComputed /\ out.errors = {} /\ out.shown = {})

\* The report page has found the uploaded file and shows its insights.
C28_Witness ==
    /\ widgets.uploads = 1
    /\ page = "Financial Report"
    /\ out.renderer = "show_report_page"
    /\ "insights" \in out.shown
    /\ uploaded_file = BaseFile("scenario")

\* The renderer that the navigation runs for a page.
RendererOf(pg) ==
    CASE pg = "Home" -> "show_home_page"
      [] pg = "Financial Analysis" -> "show_analysis_page"
      [] pg = "Financial Report" -> "show_report_page"
      [] OTHER -> "none"

\* The page that a sidebar option names.
PageOf(option) == IF option = "MSE Trade Data" THEN "Trade Data" ELSE option

\* C29: after every script run st.session_state.page is one of Home,
\* Financial Analysis, Financial Report and Trade Data and is the page
\* selected in the sidebar; the run has executed the one renderer of that
\* page for the first three and no renderer for Trade Data.
C29_OneRenderer ==
    [][/\ page' \in {"Home", "Financial Analysis", "Financial Report", "Trade Data"}
       /\ widgets'.radio \in RadioOptions
       /\ page' = PageOf(widgets'.radio)
       /\ out'.renderer = RendererOf(page')
       /\ page' = "Trade Data" =>
             out'.errors = {} /\ out'.shown = {} /\ NothingComputed']_vars

\* A run with the trade page selected has executed no renderer.
C29_Witness ==
    /\ widgets.radio = "MSE Trade Data"
    /\ page = "Trade Data"
    /\ out.renderer = "none"
    /\ widgets.uploads > 0

----------------------------------------------------------------------------
(* The gauges                                                              *)

\* The colour of the gauge step that stands for a band.
BandColour(band) ==
    CASE band \in {"Distress", "Weak"} -> "#FF6666"
      [] band \in {"Gray", "Moderate"} -> "#FFDD57"
      [] OTHER -> "#66CC66"

\* The steps of the gauge drawn whose range holds the value shown.
StepsAtValue ==
    {s \in ret.gauge.steps :
        Le(s.range[1], ret.gauge.value) /\ Le(ret.gauge.value, s.range[2])}

\* C30: the colour bands of the two gauges agree with the bands of the
\* classifiers: for every numeric Z-Score, and every F-Score the analysis page
\* can compute (0..9), the value shown lies within the axis of the gauge and
\* in a step of the colour of the band that the classifier assigns (red for
\* Distress and Weak, yellow for Gray and Moderate, green for Safe and
\* Strong).
C30_GaugeAgrees ==
    (ret.fn \in {"z", "f"} /\ IsNum(ret.gauge.value) /\ (ret.fn = "f" => arg.f <= 9)) =>
        /\ Le(ret.gauge.axis[1], ret.gauge.value)
        /\ Le(ret.gauge.value, ret.gauge.axis[2])
        /\ \E s \in StepsAtValue : s.color = BandColour(ret.analysis)

====
